---- MODULE Spec2Model ----
(***************************************************************************)
(* Model of scripts/bom_bfr_format.py: the KiCad BOM generator of Bruin    *)
(* Formula Racing.  The script is one top-to-bottom run: argument check,   *)
(* netlist load and grouping, the aggregate BOM file, then one order file  *)
(* per supplier found in the groups' "Order From" fields.                  *)
(*                                                                         *)
(* Texts are TLA+ strings.  A CSV file is kept as the sequence of its      *)
(* rows, a row as the sequence of its field texts: csv.writer with         *)
(* QUOTE_ALL writes every field of a row, quoted, in order, so the         *)
(* sequence of field texts is exactly what a reader of the file gets back. *)
(***************************************************************************)
EXTENDS Integers, Sequences, FiniteSets, TLC

(***************************************************************************)
(* Bounds of the model.                                                    *)
(***************************************************************************)
MaxQtyLen == 3        \* longest "Qty/Unit" text drawn in SpecRow
MaxGroupSize == 5     \* most components in the group of SpecRow
MaxBoards == 2        \* largest board count (sys.argv[3])

(***************************************************************************)
(* Python built-ins the script relies on.                                  *)
(***************************************************************************)
DigitText == "0123456789"

DigitChars == {SubSeq(DigitText, d + 1, d + 1) : d \in 0..9}

DigitValue(c) == CHOOSE d \in 0..9 : SubSeq(DigitText, d + 1, d + 1) = c

Chars(s) == [i \in 1..Len(s) |-> SubSeq(s, i, i)]

SetMin(S) == CHOOSE m \in S : \A n \in S : m <= n

SetMax(S) == CHOOSE m \in S : \A n \in S : m >= n

\* str.strip() as int() applies it to its argument: surrounding blanks go.
Strip(cs) ==
    LET keep == {i \in 1..Len(cs) : cs[i] # " "}
    IN  IF keep = {} THEN <<>> ELSE SubSeq(cs, SetMin(keep), SetMax(keep))

RECURSIVE DigitsValue(_)
DigitsValue(cs) ==
    IF Len(cs) = 0 THEN 0
    ELSE LET c == cs[Len(cs)]
             front == SubSeq(cs, 1, Len(cs) - 1)
         IN  IF c = "_" THEN DigitsValue(front)
             ELSE 10 * DigitsValue(front) + DigitValue(c)

\* The digit part of an integer literal: digits, single underscores allowed
\* between two digits only.
IsIntBody(cs) ==
    /\ Len(cs) >= 1
    /\ \A i \in 1..Len(cs) : cs[i] \in DigitChars \cup {"_"}
    /\ cs[1] # "_"
    /\ cs[Len(cs)] # "_"
    /\ \A i \in 1..(Len(cs) - 1) : ~(cs[i] = "_" /\ cs[i + 1] = "_")

\* int(text): [ok |-> TRUE, val |-> n], or ok = FALSE where Python raises
\* ValueError.
PyInt(s) ==
    LET cs == Strip(Chars(s))
        signed == Len(cs) >= 1 /\ cs[1] \in {"+", "-"}
        body == IF signed THEN SubSeq(cs, 2, Len(cs)) ELSE cs
    IN  IF IsIntBody(body)
        THEN [ok |-> TRUE,
              val |-> IF signed /\ cs[1] = "-" THEN 0 - DigitsValue(body)
                      ELSE DigitsValue(body)]
        ELSE [ok |-> FALSE, val |-> 0]

\* a // b of Python: the floor of the quotient, for either sign of b (b # 0).
PyFloorDiv(a, b) == IF b > 0 THEN a \div b ELSE (0 - a) \div (0 - b)

\* a % b of Python: the remainder that goes with //.
PyMod(a, b) == a - b * PyFloorDiv(a, b)

RECURSIVE NatToStr(_)
NatToStr(n) ==
    IF n < 10 THEN SubSeq(DigitText, n + 1, n + 1)
    ELSE NatToStr(n \div 10) \o SubSeq(DigitText, (n % 10) + 1, (n % 10) + 1)

\* str(col) as writerow applies it: a cell is an int ([int |-> n]) or a text
\* ([str |-> s]).
PyStr(cell) ==
    IF "int" \in DOMAIN cell
    THEN IF cell.int < 0 THEN "-" \o NatToStr(0 - cell.int) ELSE NatToStr(cell.int)
    ELSE cell.str

IntCell(n) == [int |-> n]

StrCell(s) == [str |-> s]

fromNetlistText(aText) == aText

\* writerow(acsvwriter, columns): the row of texts handed to csv.writer.
writerow(columns) == [i \in 1..Len(columns) |-> fromNetlistText(PyStr(columns[i]))]

(***************************************************************************)
(* Groups.  A group is [size, fields]: len(group) and the texts that       *)
(* net.getGroupField finds for it, by field name.                          *)
(***************************************************************************)
getGroupField(group, field) ==
    IF field \in DOMAIN group.fields THEN group.fields[field] ELSE ""

\* Faulty variant of PerOf: the except branch leaves per at 0.
PerOfNoDefault(group) ==
    LET parsed == PyInt(getGroupField(group, "Qty/Unit"))
    IN  IF parsed.ok THEN parsed.val ELSE 0

\* try: per = int(getGroupField(group, "Qty/Unit")) except ValueError: per = 1
PerOf(group) ==
    LET parsed == PyInt(getGroupField(group, "Qty/Unit"))
    IN  IF parsed.ok THEN parsed.val ELSE 1

\* per = 0 makes the Units expression raise ZeroDivisionError.
UnitsRaises(group) == PerOf(group) = 0

\* Faulty variant of Units: the round-up term is forgotten.
UnitsFloorOnly(group, boardCount) ==
    PyFloorDiv(group.size * boardCount, PerOf(group))

\* (len(group) * int(sys.argv[3])) // per + (1 if len(group) % per else 0)
Units(group, boardCount) ==
    LET per == PerOf(group)
    IN  PyFloorDiv(group.size * boardCount, per)
          + (IF PyMod(group.size, per) # 0 THEN 1 ELSE 0)

BomHeader ==
    <<StrCell("Component"), StrCell("Qty per Unit"), StrCell("Units"),
      StrCell("Cost/Unit"), StrCell("Link"), StrCell("Part Number")>>

\* Faulty variant of BomRow: part number appended before the link.
BomRowSwapped(group, boardCount) ==
    LET src == getGroupField(group, "Order From")
        base == <<StrCell(getGroupField(group, "Pretty Name")),
                  IntCell(PerOf(group)),
                  IntCell(Units(group, boardCount)),
                  StrCell(getGroupField(group, "Cost/Unit"))>>
    IN  IF src # ""
        THEN base \o <<StrCell(getGroupField(group, src \o " P/N")),
                       StrCell(getGroupField(group, src \o " Link"))>>
        ELSE base

\* The row the aggregate loop builds for one group.
BomRow(group, boardCount) ==
    LET src == getGroupField(group, "Order From")
        base == <<StrCell(getGroupField(group, "Pretty Name")),
                  IntCell(PerOf(group)),
                  IntCell(Units(group, boardCount)),
                  StrCell(getGroupField(group, "Cost/Unit"))>>
    IN  IF src # ""
        THEN base \o <<StrCell(getGroupField(group, src \o " Link")),
                       StrCell(getGroupField(group, src \o " P/N"))>>
        ELSE base

OrderHeader ==
    <<StrCell("Component"), StrCell("Order Qty"), StrCell("Part Number"),
      StrCell("Link")>>

\* Faulty variant of OrderRow: link appended before the part number, as in BomRow.
OrderRowSwapped(group, supplier, boardCount) ==
    <<StrCell(getGroupField(group, "Pretty Name")),
      IntCell(Units(group, boardCount)),
      StrCell(getGroupField(group, supplier \o " Link")),
      StrCell(getGroupField(group, supplier \o " P/N"))>>

\* The row the supplier loop builds for one group of that supplier.
OrderRow(group, supplier, boardCount) ==
    <<StrCell(getGroupField(group, "Pretty Name")),
      IntCell(Units(group, boardCount)),
      StrCell(getGroupField(group, supplier \o " P/N")),
      StrCell(getGroupField(group, supplier \o " Link"))>>

(***************************************************************************)
(* The inputs of a run.                                                    *)
(***************************************************************************)
MaxArgc == 5          \* largest len(sys.argv) tried
MaxGroups == 2        \* most groups net.groupComponents returns in Spec
MaxComps == 3         \* most components grouped in SpecGroup

Suppliers == {"Digikey", "Mouser"}

\* The group at position i of the netlist: every group carries the part
\* number and link of both suppliers, whichever it is ordered from.
GroupAt(i, size, qty, from) ==
    [size |-> size,
     fields |-> ("Pretty Name" :> ("Part" \o NatToStr(i)))
                @@ ("Qty/Unit" :> qty)
                @@ ("Cost/Unit" :> ("0." \o NatToStr(i)))
                @@ ("Order From" :> from)
                @@ ("Digikey P/N" :> ("DK-PN-" \o NatToStr(i)))
                @@ ("Digikey Link" :> ("DK-LINK-" \o NatToStr(i)))
                @@ ("Mouser P/N" :> ("MO-PN-" \o NatToStr(i)))
                @@ ("Mouser Link" :> ("MO-LINK-" \o NatToStr(i)))]

RunSizes == {1, 3}

RunQtyTexts == {"", "2", "0"}

RunGroups(i) ==
    {GroupAt(i, size, qty, from) :
        size \in RunSizes, qty \in RunQtyTexts, from \in Suppliers \cup {""}}

RECURSIVE NetlistsOfLen(_)
NetlistsOfLen(n) ==
    IF n = 0 THEN {<<>>}
    ELSE {Append(nl, g) : nl \in NetlistsOfLen(n - 1), g \in RunGroups(n)}

\* What net.groupComponents may return: any list of at most MaxGroups groups.
Netlists == UNION {NetlistsOfLen(n) : n \in 0..MaxGroups}

OutputArg == "out.csv"                     \* sys.argv[2]

Stem == SubSeq(OutputArg, 1, Len(OutputArg) - 4)   \* sys.argv[2][:-4]

BomFileName == Stem \o "_BOM.csv"

OrderFileName(s) == Stem \o "_" \o s \o "-order.csv"

STDOUT == "<stdout>"

NoHandle == ""

OpenErrorLine == <<"Can't open output file for writing: " \o OutputArg>>

UsageLine == <<"Usage <generic_netlist.xml> <output.csv> <QTY>">>

(***************************************************************************)
(* State.                                                                  *)
(***************************************************************************)
VARIABLES
    pc,                \* where the run is
    argc,              \* len(sys.argv)
    boards,            \* int(sys.argv[3])
    netLoaded,         \* kicad_netlist_reader.netlist(...) has been called
    grouped,           \* the list of groups
    suppliers_in_use,  \* the set built by the aggregate loop
    todo,              \* suppliers the supplier loop has not visited yet
    supplier,          \* the supplier loop's variable
    idx,               \* position of the running group loop in grouped
    bfr_bom_file,      \* handle of the aggregate output
    order_bom_file,    \* handle of the current supplier's output
    files,             \* files on disk: name -> rows
    stdout,            \* lines written to standard output
    stderr,            \* lines written to standard error
    opened,            \* names open_file_writeUTF8 has opened
    closed,            \* handles close() has been called on
    failedOpens,       \* names open_file_writeUTF8 has failed on
    exc,               \* the uncaught exception, "none" if none
    exitCode           \* process exit status, -1 while running

VARIABLES
    rowGroup,          \* SpecRow: the one group
    rowBoards,         \* SpecRow: the board count
    rowBom,            \* SpecRow: the aggregate row written, <<>> before
    rowOrder,          \* SpecRow: the order row written, <<>> before
    rowExc             \* SpecRow: the exception raised, "none" if none

VARIABLES
    components,        \* SpecGroup: the interesting components, in order
    cgrouped,          \* SpecGroup: the .grouped flag of each component
    groups,            \* SpecGroup: the groups built so far (of positions)
    gpos               \* SpecGroup: position of the outer loop

runVars ==
    <<pc, argc, boards, netLoaded, grouped, suppliers_in_use, todo, supplier,
      idx, bfr_bom_file, order_bom_file, files, stdout, stderr, opened,
      closed, failedOpens, exc, exitCode>>

rowVars == <<rowGroup, rowBoards, rowBom, rowOrder, rowExc>>

grpVars == <<components, cgrouped, groups, gpos>>

vars == <<runVars, rowVars, grpVars>>

RunStart ==
    /\ pc = "start"
    /\ netLoaded = FALSE
    /\ grouped = <<>>
    /\ suppliers_in_use = {}
    /\ todo = {}
    /\ supplier = ""
    /\ idx = 0
    /\ bfr_bom_file = NoHandle
    /\ order_bom_file = NoHandle
    /\ files = <<>>
    /\ stdout = <<>>
    /\ stderr = <<>>
    /\ opened = {}
    /\ closed = {}
    /\ failedOpens = {}
    /\ exc = "none"
    /\ exitCode = -1

RowIdle ==
    /\ rowGroup = GroupAt(1, 1, "", "")
    /\ rowBoards = 1
    /\ rowBom = <<>>
    /\ rowOrder = <<>>
    /\ rowExc = "none"

GrpIdle ==
    /\ components = <<>>
    /\ cgrouped = <<>>
    /\ groups = <<>>
    /\ gpos = 0

Init ==
    /\ argc \in 1..MaxArgc
    /\ boards \in 1..MaxBoards
    /\ RunStart
    /\ RowIdle
    /\ GrpIdle

(***************************************************************************)
(* The run, step by step.                                                  *)
(***************************************************************************)
\* An uncaught exception ends the run: traceback on stderr, exit status 1,
\* and the interpreter's shutdown closes the file objects still open.
Raise(e) ==
    /\ pc' = "aborted"
    /\ exc' = e
    /\ exitCode' = 1
    /\ stderr' = Append(stderr, <<"Traceback", e>>)
    /\ closed' = closed \cup opened

\* A row goes to the handle h: a file on disk or standard output.  Writing
\* to a closed handle raises ValueError.
Emit(h, row) ==
    IF h \in closed
    THEN /\ Raise("ValueError")
         /\ UNCHANGED <<files, stdout>>
    ELSE /\ IF h = STDOUT
            THEN /\ stdout' = Append(stdout, row)
                 /\ UNCHANGED files
            ELSE /\ files' = [files EXCEPT ![h] = Append(@, row)]
                 /\ UNCHANGED stdout
         /\ UNCHANGED <<exc, exitCode, stderr, closed>>

\* Faulty variant of WrongArgCount: the script name is not counted.
WrongArgCountOffByOne == argc # 3

\* len(sys.argv) != 4
WrongArgCount == argc # 4

\* if len(sys.argv) != 4: usage on stderr, sys.exit(1)
CheckArgs ==
    /\ pc = "start"
    /\ IF WrongArgCount
       THEN /\ stderr' = Append(stderr, UsageLine)
            /\ exitCode' = 1
            /\ pc' = "exited"
       ELSE /\ pc' = "load"
            /\ UNCHANGED <<stderr, exitCode>>
    /\ UNCHANGED <<argc, boards, netLoaded, grouped, suppliers_in_use, todo,
                   supplier, idx, bfr_bom_file, order_bom_file, files, stdout,
                   opened, closed, failedOpens, exc>>

\* net = netlist(sys.argv[1]) ... grouped = net.groupComponents(components)
LoadNetlist ==
    /\ pc = "load"
    /\ netLoaded' = TRUE
    /\ \E nl \in Netlists : grouped' = nl
    /\ pc' = "open_bom"
    /\ UNCHANGED <<argc, boards, suppliers_in_use, todo, supplier, idx,
                   bfr_bom_file, order_bom_file, files, stdout, stderr,
                   opened, closed, failedOpens, exc, exitCode>>

\* try: open_file_writeUTF8(name, 'w')
\* except IOError: print(__file__, ":", e, sys.stderr); handle = sys.stdout
\* The print has sys.stderr as a positional argument, so the line goes to
\* standard output; print on a closed standard output raises ValueError.
\* Returns through the primed variables; handle' is the variable assigned.
OpenOutput(name, ok, nextPc) ==
    IF ok
    THEN /\ files' = (name :> <<>>) @@ files
         /\ opened' = opened \cup {name}
         /\ pc' = nextPc
         /\ UNCHANGED <<stdout, stderr, failedOpens, exc, exitCode, closed>>
    ELSE /\ failedOpens' = failedOpens \cup {name}
         /\ IF STDOUT \in closed
            THEN /\ Raise("ValueError")
                 /\ UNCHANGED stdout
            ELSE /\ stdout' = Append(stdout, OpenErrorLine)
                 /\ pc' = nextPc
                 /\ UNCHANGED <<stderr, exc, exitCode, closed>>
         /\ UNCHANGED <<files, opened>>

OpenBom ==
    /\ pc = "open_bom"
    /\ \E ok \in BOOLEAN :
          /\ OpenOutput(BomFileName, ok, "bom_header")
          /\ bfr_bom_file' = IF ok THEN BomFileName ELSE STDOUT
    /\ UNCHANGED <<argc, boards, netLoaded, grouped, suppliers_in_use, todo,
                   supplier, idx, order_bom_file>>

\* suppliers_in_use = set(); writerow(out, [...header...])
WriteBomHeader ==
    /\ pc = "bom_header"
    /\ suppliers_in_use' = {}
    /\ Emit(bfr_bom_file, writerow(BomHeader))
    /\ idx' = 1
    /\ IF bfr_bom_file \in closed THEN TRUE ELSE pc' = "bom_rows"
    /\ UNCHANGED <<argc, boards, netLoaded, grouped, todo, supplier,
                   bfr_bom_file, order_bom_file, opened, failedOpens>>

\* Faulty variant of SuppliersAfter: the empty "Order From" is added too.
SuppliersAfterUnchecked(group, inUse) ==
    inUse \cup {getGroupField(group, "Order From")}

\* src = getGroupField(group, "Order From")
\* if (src != ""): suppliers_in_use.add(src)
SuppliersAfter(group, inUse) ==
    LET src == getGroupField(group, "Order From")
    IN  IF src # "" THEN inUse \cup {src} ELSE inUse

\* One pass of: for group in grouped (aggregate loop).
WriteBomRow ==
    /\ pc = "bom_rows"
    /\ idx <= Len(grouped)
    /\ LET group == grouped[idx]
       IN  IF UnitsRaises(group)
           THEN /\ Raise("ZeroDivisionError")
                /\ UNCHANGED <<files, stdout, suppliers_in_use, idx>>
           ELSE /\ suppliers_in_use' = SuppliersAfter(group, suppliers_in_use)
                /\ Emit(bfr_bom_file, writerow(BomRow(group, boards)))
                /\ idx' = idx + 1
                /\ IF bfr_bom_file \in closed THEN TRUE ELSE pc' = pc
    /\ UNCHANGED <<argc, boards, netLoaded, grouped, todo, supplier,
                   bfr_bom_file, order_bom_file, opened, failedOpens>>

\* bfr_bom_file.close(), then the supplier loop starts.
CloseBom ==
    /\ pc = "bom_rows"
    /\ idx > Len(grouped)
    /\ closed' = closed \cup {bfr_bom_file}
    /\ todo' = suppliers_in_use
    /\ pc' = "next_supplier"
    /\ UNCHANGED <<argc, boards, netLoaded, grouped, suppliers_in_use,
                   supplier, idx, bfr_bom_file, order_bom_file, files, stdout,
                   stderr, opened, failedOpens, exc, exitCode>>

\* for supplier in suppliers_in_use: (set order is arbitrary) open its file.
OpenOrder ==
    /\ pc = "next_supplier"
    /\ \E s \in todo :
          /\ supplier' = s
          /\ todo' = todo \ {s}
          /\ \E ok \in BOOLEAN :
                /\ OpenOutput(OrderFileName(s), ok, "order_header")
                /\ order_bom_file' = IF ok THEN OrderFileName(s)
                                     ELSE IF STDOUT \in closed THEN order_bom_file
                                     ELSE STDOUT
    /\ UNCHANGED <<argc, boards, netLoaded, grouped, suppliers_in_use, idx,
                   bfr_bom_file>>

WriteOrderHeader ==
    /\ pc = "order_header"
    /\ Emit(order_bom_file, writerow(OrderHeader))
    /\ idx' = 1
    /\ IF order_bom_file \in closed THEN TRUE ELSE pc' = "order_rows"
    /\ UNCHANGED <<argc, boards, netLoaded, grouped, suppliers_in_use, todo,
                   supplier, bfr_bom_file, order_bom_file, opened,
                   failedOpens>>

\* One pass of: for group in grouped (supplier loop).
WriteOrderRow ==
    /\ pc = "order_rows"
    /\ idx <= Len(grouped)
    /\ LET group == grouped[idx]
       IN  IF getGroupField(group, "Order From") = supplier
           THEN IF UnitsRaises(group)
                THEN /\ Raise("ZeroDivisionError")
                     /\ UNCHANGED <<files, stdout, idx>>
                ELSE /\ Emit(order_bom_file,
                             writerow(OrderRow(group, supplier, boards)))
                     /\ idx' = idx + 1
                     /\ IF order_bom_file \in closed THEN TRUE ELSE pc' = pc
           ELSE /\ idx' = idx + 1
                /\ UNCHANGED <<pc, files, stdout, stderr, exc, exitCode,
                               closed>>
    /\ UNCHANGED <<argc, boards, netLoaded, grouped, suppliers_in_use, todo,
                   supplier, bfr_bom_file, order_bom_file, opened,
                   failedOpens>>

\* Faulty variant of CloseOrder: the loop goes on without closing the file.
CloseOrderSkipped ==
    /\ pc = "order_rows"
    /\ idx > Len(grouped)
    /\ pc' = "next_supplier"
    /\ UNCHANGED <<argc, boards, netLoaded, grouped, suppliers_in_use, todo,
                   supplier, idx, bfr_bom_file, order_bom_file, files, stdout,
                   stderr, opened, closed, failedOpens, exc, exitCode>>

\* order_bom_file.close()
CloseOrder ==
    /\ pc = "order_rows"
    /\ idx > Len(grouped)
    /\ closed' = closed \cup {order_bom_file}
    /\ pc' = "next_supplier"
    /\ UNCHANGED <<argc, boards, netLoaded, grouped, suppliers_in_use, todo,
                   supplier, idx, bfr_bom_file, order_bom_file, files, stdout,
                   stderr, opened, failedOpens, exc, exitCode>>

\* The supplier loop is exhausted: the script ends, exit status 0.
Finish ==
    /\ pc = "next_supplier"
    /\ todo = {}
    /\ pc' = "done"
    /\ exitCode' = 0
    /\ UNCHANGED <<argc, boards, netLoaded, grouped, suppliers_in_use, todo,
                   supplier, idx, bfr_bom_file, order_bom_file, files, stdout,
                   stderr, opened, closed, failedOpens, exc>>

Next ==
    \/ (CheckArgs /\ UNCHANGED <<rowVars, grpVars>>)
    \/ (LoadNetlist /\ UNCHANGED <<rowVars, grpVars>>)
    \/ (OpenBom /\ UNCHANGED <<rowVars, grpVars>>)
    \/ (WriteBomHeader /\ UNCHANGED <<rowVars, grpVars>>)
    \/ (WriteBomRow /\ UNCHANGED <<rowVars, grpVars>>)
    \/ (CloseBom /\ UNCHANGED <<rowVars, grpVars>>)
    \/ (OpenOrder /\ UNCHANGED <<rowVars, grpVars>>)
    \/ (WriteOrderHeader /\ UNCHANGED <<rowVars, grpVars>>)
    \/ (WriteOrderRow /\ UNCHANGED <<rowVars, grpVars>>)
    \/ (CloseOrder /\ UNCHANGED <<rowVars, grpVars>>)
    \/ (Finish /\ UNCHANGED <<rowVars, grpVars>>)

Spec == Init /\ [][Next]_vars

(***************************************************************************)
(* SpecRow: the two row computations on one group, over every "Qty/Unit"   *)
(* text of at most MaxQtyLen characters of QtyAlphabet.                    *)
(***************************************************************************)
QtyAlphabet == {"0", "1", "2", "3", "-", "_", ".", " ", "x"}

RECURSIVE TextsUpTo(_)
TextsUpTo(n) ==
    IF n = 0 THEN {""}
    ELSE LET shorter == TextsUpTo(n - 1)
         IN  shorter \cup {t \o c : t \in shorter, c \in QtyAlphabet}

InitRow ==
    /\ argc = 4
    /\ boards = 1
    /\ RunStart
    /\ GrpIdle
    /\ \E size \in 1..MaxGroupSize, qty \in TextsUpTo(MaxQtyLen),
          from \in {"", "Digikey"} :
          rowGroup = GroupAt(1, size, qty, from)
    /\ rowBoards \in 1..MaxBoards
    /\ rowBom = <<>>
    /\ rowOrder = <<>>
    /\ rowExc = "none"

\* The body of the aggregate loop for the group (lines 117-131).
AggregateRow ==
    /\ rowBom = <<>>
    /\ rowExc = "none"
    /\ IF UnitsRaises(rowGroup)
       THEN /\ rowExc' = "ZeroDivisionError"
            /\ UNCHANGED rowBom
       ELSE /\ rowBom' = writerow(BomRow(rowGroup, rowBoards))
            /\ UNCHANGED rowExc
    /\ UNCHANGED <<rowGroup, rowBoards, rowOrder>>

\* The body of the supplier loop for the group, in the pass of the supplier
\* it is ordered from (lines 145-155).
SupplierRow ==
    /\ rowBom # <<>>
    /\ rowOrder = <<>>
    /\ getGroupField(rowGroup, "Order From") # ""
    /\ rowOrder' = writerow(OrderRow(rowGroup,
                                     getGroupField(rowGroup, "Order From"),
                                     rowBoards))
    /\ UNCHANGED <<rowGroup, rowBoards, rowBom, rowExc>>

NextRow ==
    \/ (AggregateRow /\ UNCHANGED <<runVars, grpVars>>)
    \/ (SupplierRow /\ UNCHANGED <<runVars, grpVars>>)

SpecRow == InitRow /\ [][NextRow]_vars

(***************************************************************************)
(* SpecGroup: net.groupComponents under the overridden comp.__eq__.        *)
(***************************************************************************)
Comps ==
    [value : {"1k", "10k"}, partName : {"R", "C"},
     footprint : {"0603", "0805"}, dnp : BOOLEAN]

getValue(c) == c.value

getPartName(c) == c.partName

getFootprint(c) == c.footprint

getDNP(c) == c.dnp

\* Faulty variant of myEqu: the DNP comparison is missing.
myEquNoDNP(self, other) ==
    IF getValue(self) # getValue(other) THEN FALSE
    ELSE IF getPartName(self) # getPartName(other) THEN FALSE
    ELSE IF getFootprint(self) # getFootprint(other) THEN FALSE
    ELSE TRUE

myEqu(self, other) ==
    IF getValue(self) # getValue(other) THEN FALSE
    ELSE IF getPartName(self) # getPartName(other) THEN FALSE
    ELSE IF getFootprint(self) # getFootprint(other) THEN FALSE
    ELSE IF getDNP(self) # getDNP(other) THEN FALSE
    ELSE TRUE

InitGroup ==
    /\ argc = 4
    /\ boards = 1
    /\ RunStart
    /\ RowIdle
    /\ \E n \in 0..MaxComps : components \in [1..n -> Comps]
    /\ cgrouped = [i \in 1..Len(components) |-> FALSE]
    /\ groups = <<>>
    /\ gpos = 1

\* The positions, in order, of the still ungrouped components equal to the
\* one at position at (which is already flagged).
RECURSIVE Joiners(_, _, _)
Joiners(at, flags, from) ==
    IF from > Len(components) THEN <<>>
    ELSE IF flags[from] = FALSE /\ myEqu(components[from], components[at])
         THEN <<from>> \o Joiners(at, flags, from + 1)
         ELSE Joiners(at, flags, from + 1)

\* One pass of the outer loop of groupComponents.
GroupStep ==
    /\ gpos >= 1
    /\ gpos <= Len(components)
    /\ IF cgrouped[gpos] = FALSE
       THEN LET flagged == [cgrouped EXCEPT ![gpos] = TRUE]
                joined == Joiners(gpos, flagged, 1)
            IN  /\ groups' = Append(groups, <<gpos>> \o joined)
                /\ cgrouped' = [i \in 1..Len(components) |->
                                   flagged[i]
                                   \/ \E k \in 1..Len(joined) : joined[k] = i]
       ELSE UNCHANGED <<groups, cgrouped>>
    /\ gpos' = gpos + 1
    /\ UNCHANGED components

GroupingDone == gpos > Len(components)

NextGroup == GroupStep /\ UNCHANGED <<runVars, rowVars>>

SpecGroup == InitGroup /\ [][NextGroup]_vars

(***************************************************************************)
(* Properties of the row computations (SpecRow).                           *)
(***************************************************************************)
RowQty == getGroupField(rowGroup, "Qty/Unit")

RowParsed == PyInt(RowQty)

RowNeeded == rowGroup.size * rowBoards

\* The Units / Order Qty texts written so far.
RowWrittenUnits ==
    (IF rowBom # <<>> THEN {rowBom[3]} ELSE {})
      \cup (IF rowOrder # <<>> THEN {rowOrder[2]} ELSE {})

\* ceil(n / d) for n >= 0, d >= 1.
CeilDiv(n, d) == CHOOSE q \in 0..n : q * d >= n /\ (q - 1) * d < n

\* C1: for every positive integer Qty/Unit and positive board count, the
\* Units written in the aggregate row and the Order Qty written in the order
\* row equal ceil(group_size * board_count / qty_per_unit).
C1_UnitsIsCeiling ==
    (RowParsed.ok /\ RowParsed.val >= 1)
        => \A u \in RowWrittenUnits :
              u = NatToStr(CeilDiv(RowNeeded, RowParsed.val))

\* A text that reads as a number: blanks around it aside, an optional sign,
\* then digits with at most one decimal point, underscores allowed between
\* two digits.
NumericText(s) ==
    LET cs == Strip(Chars(s))
        signed == Len(cs) >= 1 /\ cs[1] \in {"+", "-"}
        body == IF signed THEN SubSeq(cs, 2, Len(cs)) ELSE cs
        n == Len(body)
    IN  /\ \E i \in 1..n : body[i] \in DigitChars
        /\ \A i \in 1..n : body[i] \in DigitChars \cup {".", "_"}
        /\ Cardinality({i \in 1..n : body[i] = "."}) <= 1
        /\ \A i \in 1..n :
              body[i] = "_" => /\ i > 1
                               /\ i < n
                               /\ body[i - 1] \in DigitChars
                               /\ body[i + 1] \in DigitChars

\* C7: a missing (empty) or non-numeric Qty/Unit is taken as 1 without error:
\* the aggregate row shows Qty per Unit 1 and Units group_size * board_count,
\* and the order row the same quantity.
C7_NonNumericQtyDefaultsToOne ==
    ~NumericText(RowQty)
        => /\ rowExc = "none"
           /\ rowBom # <<>> => rowBom[2] = "1"
           /\ \A u \in RowWrittenUnits : u = NatToStr(RowNeeded)

C7_Witness ==
    /\ ~NumericText(RowQty)
    /\ RowQty # ""
    /\ rowGroup.size > 1
    /\ rowBoards > 1
    /\ rowBom # <<>>
    /\ rowOrder # <<>>

\* C10: for a Qty/Unit that parses to an integer >= 1 and a board count >= 1,
\* every written quantity U has U >= 1 and U * qty_per_unit >= size * boards.
C10_NeverUnderOrders ==
    (RowParsed.ok /\ RowParsed.val >= 1)
        => \A u \in RowWrittenUnits :
              /\ PyInt(u).ok
              /\ PyInt(u).val >= 1
              /\ PyInt(u).val * RowParsed.val >= RowNeeded

C10_Witness ==
    /\ RowParsed.ok
    /\ RowParsed.val >= 2
    /\ RowNeeded % RowParsed.val # 0
    /\ RowNeeded > RowParsed.val
    /\ rowBom # <<>>
    /\ rowOrder # <<>>

(***************************************************************************)
(* Properties of the grouping (SpecGroup).                                 *)
(***************************************************************************)
SameKey(a, b) ==
    /\ a.value = b.value
    /\ a.partName = b.partName
    /\ a.footprint = b.footprint
    /\ a.dnp = b.dnp

\* The places (group, position in the group) where component i is listed.
PlacesOf(i) ==
    {<<g, k>> \in (1..Len(groups)) \X (1..Len(components)) :
        k <= Len(groups[g]) /\ groups[g][k] = i}

CoGrouped(i, j) ==
    \E p \in PlacesOf(i), q \in PlacesOf(j) : p[1] = q[1]

FromOf(i) == getGroupField(grouped[i], "Order From")

\* The distinct non-empty "Order From" values of the groups.
OrderedFrom == {FromOf(i) : i \in 1..Len(grouped)} \ {""}

QtyText(group) == PyStr(IntCell(Units(group, boards)))

\* The aggregate row of group i as the claims describe it.
ExpectedBomRow(i) ==
    LET g == grouped[i]
        common == <<g.fields["Pretty Name"], PyStr(IntCell(PerOf(g))),
                    QtyText(g), g.fields["Cost/Unit"]>>
    IN  IF FromOf(i) # ""
        THEN common \o <<g.fields[FromOf(i) \o " Link"],
                         g.fields[FromOf(i) \o " P/N"]>>
        ELSE common

ExpectedBomFile ==
    <<<<"Component", "Qty per Unit", "Units", "Cost/Unit", "Link",
        "Part Number">>>>
      \o [i \in 1..Len(grouped) |-> ExpectedBomRow(i)]

\* The order row of group i as the claims describe it.
ExpectedOrderRow(i) ==
    LET g == grouped[i]
    IN  <<g.fields["Pretty Name"], QtyText(g), g.fields[FromOf(i) \o " P/N"],
          g.fields[FromOf(i) \o " Link"]>>

RECURSIVE ExpectedOrderRows(_, _)
ExpectedOrderRows(s, i) ==
    IF i > Len(grouped) THEN <<>>
    ELSE IF FromOf(i) = s
         THEN <<ExpectedOrderRow(i)>> \o ExpectedOrderRows(s, i + 1)
         ELSE ExpectedOrderRows(s, i + 1)

ExpectedOrderFile(s) ==
    <<<<"Component", "Order Qty", "Part Number", "Link">>>>
      \o ExpectedOrderRows(s, 1)

Contains(rows, row) == \E k \in 1..Len(rows) : rows[k] = row

\* block occurs in lines as a run of consecutive lines.
HasBlock(lines, block) ==
    \E k \in 0..Len(lines) :
        /\ k + Len(block) <= Len(lines)
        /\ SubSeq(lines, k + 1, k + Len(block)) = block

\* C3: with an argument count other than three (len(sys.argv) # 4) the run
\* prints the usage line to stderr and exits with status 1 before the
\* netlist is loaded and before any output is opened or written.
C3_WrongArgCountExitsFirst ==
    argc # 4
        => /\ pc \in {"start", "exited"}
           /\ netLoaded = FALSE
           /\ opened = {}
           /\ failedOpens = {}
           /\ DOMAIN files = {}
           /\ stdout = <<>>
           /\ pc = "start" => stderr = <<>> /\ exitCode = -1
           /\ pc = "exited" => stderr = <<UsageLine>> /\ exitCode = 1

C3_Witness ==
    /\ argc = 3
    /\ pc = "exited"
    /\ exitCode = 1

\* C4: a failed open of any output file sends that file's rows to standard
\* output and the run goes on: whatever opens fail, the run ends normally
\* with every such output written in full on standard output.  (Runs ended
\* by a zero Qty/Unit are left aside: they abort whatever the opens do.)
C4_OpenFailuresNeverAbort ==
    (failedOpens # {} /\ exc # "ZeroDivisionError")
        => /\ pc # "aborted"
           /\ pc = "done" =>
                 /\ BomFileName \in failedOpens
                       => HasBlock(stdout, <<OpenErrorLine>> \o ExpectedBomFile)
                 /\ \A s \in OrderedFrom :
                       OrderFileName(s) \in failedOpens
                           => HasBlock(stdout, <<OpenErrorLine>>
                                                 \o ExpectedOrderFile(s))

\* C5: a run that ends normally with every open successful has created
\* exactly the aggregate file and one order file per distinct non-empty
\* "Order From" value, 1 + N files; and no run ever creates an order file
\* for a supplier no group is ordered from, or for the empty value.
C5_OneFilePerSupplierInUse ==
    /\ DOMAIN files \subseteq
          {BomFileName} \cup {OrderFileName(s) : s \in OrderedFrom}
    /\ (pc = "done" /\ failedOpens = {})
          => /\ DOMAIN files =
                   {BomFileName} \cup {OrderFileName(s) : s \in OrderedFrom}
             /\ Cardinality(DOMAIN files) = 1 + Cardinality(OrderedFrom)

C5_Witness ==
    /\ pc = "done"
    /\ failedOpens = {}
    /\ Len(grouped) = 2
    /\ FromOf(1) = ""
    /\ OrderedFrom = {"Digikey"}
    /\ Cardinality(DOMAIN files) = 2

\* C6: at the end of the run the order file of supplier S holds the header
\* and then, in group order, one row (Pretty Name, Order Qty, "S P/N",
\* "S Link") for each group ordered from S and nothing else; so with every
\* open successful each group with a non-empty "Order From" is in exactly one
\* order file.
C6_OrderFileRows ==
    pc = "done"
        => /\ \A s \in OrderedFrom :
                 OrderFileName(s) \in DOMAIN files
                     => files[OrderFileName(s)] = ExpectedOrderFile(s)
           /\ failedOpens = {}
                 => \A i \in 1..Len(grouped) :
                       FromOf(i) # ""
                           => Cardinality(
                                 {n \in DOMAIN files \ {BomFileName} :
                                     Contains(files[n], ExpectedOrderRow(i))})
                              = 1

C6_Witness ==
    /\ pc = "done"
    /\ failedOpens = {}
    /\ Len(grouped) = 2
    /\ FromOf(1) = "Mouser"
    /\ FromOf(2) = "Digikey"
    /\ Len(files[OrderFileName("Digikey")]) = 2
    /\ Len(files[OrderFileName("Mouser")]) = 2

\* C8: at the end of the run the aggregate file holds the header and then one
\* row per group in group order: six columns (Pretty Name, Qty per Unit,
\* Units, Cost/Unit, "S Link", "S P/N") for a group ordered from S, four
\* columns for a group with an empty "Order From".
C8_AggregateFileRows ==
    (pc = "done" /\ BomFileName \in DOMAIN files)
        => /\ files[BomFileName] = ExpectedBomFile
           /\ \A i \in 1..Len(grouped) :
                 Len(files[BomFileName][i + 1]) = IF FromOf(i) = "" THEN 4 ELSE 6

C8_Witness ==
    /\ pc = "done"
    /\ BomFileName \in DOMAIN files
    /\ Len(grouped) = 2
    /\ FromOf(1) = "Digikey"
    /\ FromOf(2) = ""

\* The handles the script holds and has not closed.
HeldOpen == ({bfr_bom_file, order_bom_file} \ {NoHandle}) \ closed

C9_State ==
    /\ Cardinality(HeldOpen) <= 1
    /\ Cardinality(opened \ closed) <= 1
    /\ order_bom_file # NoHandle => bfr_bom_file \in closed
    /\ pc \in {"done", "aborted", "exited"} => opened \subseteq closed

C9_Step ==
    /\ \A n \in DOMAIN files :
          files'[n] # files[n] => n \notin closed
    /\ stdout' # stdout => STDOUT \notin closed
    /\ opened' # opened => opened \subseteq closed
    /\ order_bom_file' # order_bom_file
          => order_bom_file \in closed \cup {NoHandle}

====
